---- MODULE Spec2Model ----
(***************************************************************************)
(* The seat-inventory booking transaction of the event management backend: *)
(* createBooking and cancelBooking of controllers/bookingController.ts,    *)
(* run as concurrent request handlers over MongoDB multi-document          *)
(* transactions (snapshot reads, first-writer-wins write conflicts).       *)
(* Every action is the code between two awaits of a handler.               *)
(***************************************************************************)
EXTENDS Integers, Sequences, FiniteSets, TLC

\* ---------------------------------------------------------------- bounds
MaxCalls == 2          \* request handlers that may run at the same time
MaxOps == 3            \* requests per behaviour
Capacity == 3          \* totalSeats of every event
Price == 5             \* price of every event
EventDate == 48        \* start of every event, in hours after time 0
MaxFaults == 1         \* injected persistence faults per behaviour
AppCapacity == 11      \* totalSeats of the event the app books

\* ------------------------------------------------------ program constants
MinSeatsPerBooking == 1
MaxSeatsPerBooking == 10
CancelCutoffHours == 24

\* ------------------------------------------------------------ input sets
Calls == 1..MaxCalls
Users == {"A", "B"}
EventIds == {"e1"}
NoEvent == "e0"                         \* an id no event has
\* create requests <<user, event, seatsBooked>>: valid ones of both users, and one
\* of each kind the validation or the existence check turns away
CreateInputs == {<<"A", "e1", 1>>, <<"A", "e1", 2>>, <<"B", "e1", 2>>,
                 <<"A", NoEvent, 1>>, <<"A", "e1", MinSeatsPerBooking - 1>>,
                 <<"A", "e1", MaxSeatsPerBooking + 1>>}
\* cancel requests <<user, booking id>>
CancelInputs == {<<"A", 1>>, <<"B", 1>>, <<"A", 2>>}
TimePoints == {0, EventDate - CancelCutoffHours, EventDate - CancelCutoffHours + 1,
               EventDate, EventDate + 1}

VARIABLES
  now,        \* the clock, in hours, as new Date() last read it
  events,     \* Event collection (committed): id -> document
  bookings,   \* Booking collection (committed): sequence of documents, _id = index
  pc,         \* per handler: the await it is suspended at
  req,        \* per handler: the request (req.body / req.params / req.user)
  snap,       \* per handler: the transaction's read snapshot, <<>> before its first read
  wset,       \* per handler: the transaction's uncommitted writes
  txn,        \* per handler: session transaction state
  res,        \* per handler: the response sent (code 0: none)
  err,        \* per handler: the error thrown into the catch block
  tobs,       \* per handler: the value of new Date() the handler read
  lin,        \* history: per handler, what the sequential operation answers at its linearization point
  madeBy,     \* history: per booking, the handler that inserted it
  restored,   \* history: per booking, seats added to availableSeats by commits of its cancellation
  sold,       \* history: per event, seats summed over create calls answered 201
  ops,        \* history: number of requests received
  faults,     \* history: number of persistence faults injected
  cid,        \* history: per handler, the serial number of its request
  got,        \* per handler: what the queries of a read handler have returned so far
  app         \* the mobile app: the booking screen that is open and its seat selector

vars == <<now, events, bookings, pc, req, snap, wset, txn, res, err, tobs,
          lin, madeBy, restored, sold, ops, faults, cid, got, app>>
store == <<events, bookings>>
hist == <<madeBy, restored, sold>>
serial == <<ops, faults, cid, got, app>>

\* --------------------------------------------------------------- results
Result(code, message, n) == [code |-> code, message |-> message, n |-> n]
NoResult == Result(0, "", 0)
Created == Result(201, "Booking created successfully", 0)
Cancelled == Result(200, "Booking cancelled successfully", 0)
ValidationError == Result(400, "Validation error", 0)
EventNotFound == Result(404, "Event not found", 0)
PastEvent == Result(400, "Cannot book tickets for past events", 0)
Duplicate == Result(400, "You already have a booking for this event", 0)
OnlySeats(n) == Result(400, "Only n seats available", n)
BookingNotFound == Result(404, "Booking not found", 0)
AlreadyCancelled == Result(400, "Booking is already cancelled", 0)
TooLate == Result(400, "Cannot cancel booking less than 24 hours before the event", 0)
ErrorCreating == Result(500, "Error creating booking", 0)
ErrorCancelling == Result(500, "Error cancelling booking", 0)

NoRequest == [op |-> "none", user |-> "", event |-> "", seats |-> 0, id |-> 0]
NoWrites == [newBooking |-> <<>>, cancelled |-> {}, seats |-> <<>>]
NoError == [kind |-> "none", at |-> ""]
\* no booking screen is open in the app
NoScreen == [screen |-> "none", event |-> "", availableSeats |-> 0,
             numberOfSeats |-> 1, seatsToBook |-> 1]
NoData == [bookings |-> <<>>, total |-> -1, stats |-> <<>>,
           page |-> 0, limit |-> 0, pages |-> -1]

\* ------------------------------------------------------------ documents
NewEvent == [totalSeats |-> Capacity, availableSeats |-> Capacity,
             price |-> Price, date |-> EventDate, ver |-> 0]

\* the schema default applies when the constructor is given no status
DefaultStatusAs(given) == "pending"
DefaultStatus(given) == IF given = "" THEN "pending" ELSE given

NewBooking(user, event, seatsBooked, totalAmount, status) ==
  [user |-> user, event |-> event, seatsBooked |-> seatsBooked,
   totalAmount |-> totalAmount, status |-> DefaultStatus(status), ver |-> 0]

ValidBookingBodyAs(event, seatsBooked) ==
  /\ event # ""
  /\ seatsBooked <= MaxSeatsPerBooking
ValidBookingBody(event, seatsBooked) ==
  /\ event # ""
  /\ seatsBooked >= MinSeatsPerBooking
  /\ seatsBooked <= MaxSeatsPerBooking

\* ---------------------------------------------------------- transactions
Db == [events |-> events, bookings |-> bookings]
Seen(c) == snap[c][1]

RECURSIVE SumSeq(_)
SumSeq(s) == IF s = <<>> THEN 0 ELSE s[1] + SumSeq(Tail(s))

ConfirmedSeats(bs, e) ==
  SumSeq([i \in 1..Len(bs) |->
            IF bs[i].event = e /\ bs[i].status = "confirmed"
            THEN bs[i].seatsBooked ELSE 0])

EventHeldByOtherAs(c, e) == FALSE
\* (one lock for all events)
EventHeldByOtherAnyEvent(c, e) ==
  \E d \in Calls \ {c} : txn[d] = "active" /\ wset[d].seats # <<>>
EventHeldByOther(c, e) ==
  \E d \in Calls \ {c} :
    txn[d] = "active" /\ wset[d].seats # <<>> /\ wset[d].seats[1].event = e

BookingHeldByOther(c, id) ==
  \E d \in Calls \ {c} : txn[d] = "active" /\ id \in wset[d].cancelled

EventWriteConflictAs(c, e) == FALSE
EventWriteConflict(c, e) ==
  \/ EventHeldByOther(c, e)
  \/ events[e].ver # Seen(c).events[e].ver

BookingWriteConflict(c, id) ==
  \/ BookingHeldByOther(c, id)
  \/ bookings[id].ver # Seen(c).bookings[id].ver

ApplyEvents(evs, w) ==
  IF w.seats = <<>> THEN evs
  ELSE [evs EXCEPT ![w.seats[1].event] =
          [@ EXCEPT !.availableSeats = w.seats[1].availableSeats, !.ver = @ + 1]]

\* (a cancellation that also clears the amount, as for a refund)
ApplyBookingsRefund(bs, w) ==
  [i \in 1..Len(bs) |->
     IF i \in w.cancelled
     THEN [bs[i] EXCEPT !.status = "cancelled", !.totalAmount = 0, !.ver = @ + 1]
     ELSE bs[i]] \o w.newBooking
ApplyBookings(bs, w) ==
  [i \in 1..Len(bs) |->
     IF i \in w.cancelled
     THEN [bs[i] EXCEPT !.status = "cancelled", !.ver = @ + 1]
     ELSE bs[i]] \o w.newBooking


\* ------------------------------------------ the handlers run without overlap
\* createBooking (validateBooking, then the handler) as one indivisible operation
\* on the collections db, with new Date() = t: the collections and the answer.
SeqCreate(db, u, e, n, t) ==
  IF ~ValidBookingBody(e, n) THEN [db |-> db, res |-> ValidationError]
  ELSE IF e \notin DOMAIN db.events THEN [db |-> db, res |-> EventNotFound]
  ELSE IF db.events[e].date < t THEN [db |-> db, res |-> PastEvent]
  ELSE IF \E i \in 1..Len(db.bookings) :
            /\ db.bookings[i].user = u
            /\ db.bookings[i].event = e
            /\ db.bookings[i].status = "confirmed"
       THEN [db |-> db, res |-> Duplicate]
  ELSE IF db.events[e].availableSeats < n
       THEN [db |-> db, res |-> OnlySeats(db.events[e].availableSeats)]
  ELSE [db |-> [events |-> [db.events EXCEPT
                              ![e] = [@ EXCEPT !.availableSeats = @ - n, !.ver = @ + 1]],
                bookings |-> Append(db.bookings,
                                    NewBooking(u, e, n, db.events[e].price * n, "confirmed"))],
        res |-> Created]

\* cancelBooking as one indivisible operation on db, with new Date() = t.
SeqCancel(db, u, id, t) ==
  IF ~(id \in 1..Len(db.bookings) /\ db.bookings[id].user = u)
  THEN [db |-> db, res |-> BookingNotFound]
  ELSE IF db.bookings[id].status = "cancelled" THEN [db |-> db, res |-> AlreadyCancelled]
  ELSE IF db.bookings[id].event \notin DOMAIN db.events THEN [db |-> db, res |-> EventNotFound]
  ELSE IF db.events[db.bookings[id].event].date - t < CancelCutoffHours
       THEN [db |-> db, res |-> TooLate]
  ELSE [db |-> [events |-> [db.events EXCEPT ![db.bookings[id].event] =
                              [@ EXCEPT !.availableSeats = @ + db.bookings[id].seatsBooked,
                                        !.ver = @ + 1]],
                bookings |-> [db.bookings EXCEPT
                                ![id] = [@ EXCEPT !.status = "cancelled", !.ver = @ + 1]]],
        res |-> Cancelled]

SeqOp(db, r, t) ==
  IF r.op = "create" THEN SeqCreate(db, r.user, r.event, r.seats, t)
  ELSE SeqCancel(db, r.user, r.id, t)

\* what the sequential operation does at this point, and whether it leaves db2
LinAt(db, r, t, db2) == [res |-> SeqOp(db, r, t).res, ok |-> SeqOp(db, r, t).db = db2]

\* ------------------------------------------------------------------ Init
Init ==
  /\ now = 0
  /\ events = [e \in EventIds |-> NewEvent]
  /\ bookings = <<>>
  /\ pc = [c \in Calls |-> "idle"]
  /\ req = [c \in Calls |-> NoRequest]
  /\ snap = [c \in Calls |-> <<>>]
  /\ wset = [c \in Calls |-> NoWrites]
  /\ txn = [c \in Calls |-> "none"]
  /\ res = [c \in Calls |-> NoResult]
  /\ err = [c \in Calls |-> NoError]
  /\ tobs = [c \in Calls |-> 0]
  /\ lin = [c \in Calls |-> [res |-> NoResult, ok |-> TRUE]]
  /\ madeBy = <<>>
  /\ restored = <<>>
  /\ sold = [e \in EventIds |-> 0]
  /\ ops = 0
  /\ faults = 0
  /\ cid = [c \in Calls |-> 0]
  /\ got = [c \in Calls |-> NoData]
  /\ app = NoScreen

\* a request is taken by the first free handler (handlers are interchangeable)
Free(c) == pc[c] \in {"idle", "done"}
Accept(c) ==
  /\ Free(c)
  /\ \A d \in Calls : d < c => ~Free(d)
  /\ ops < MaxOps
  /\ ops' = ops + 1
  /\ cid' = [cid EXCEPT ![c] = ops + 1]
  /\ err' = [err EXCEPT ![c] = NoError]
  /\ tobs' = [tobs EXCEPT ![c] = 0]
  /\ got' = [got EXCEPT ![c] = NoData]
  /\ UNCHANGED <<faults, app>>

\* a validation rejection: abortTransaction, the response, endSession
Reject(c, r, view, t) ==
  /\ pc' = [pc EXCEPT ![c] = "done"]
  /\ res' = [res EXCEPT ![c] = r]
  /\ txn' = [txn EXCEPT ![c] = "aborted"]
  /\ snap' = [snap EXCEPT ![c] = <<>>]
  /\ wset' = [wset EXCEPT ![c] = NoWrites]
  /\ lin' = [lin EXCEPT ![c] = LinAt(view, req[c], t, view)]
  /\ tobs' = [tobs EXCEPT ![c] = 0]

\* a thrown error: control moves to the catch block
Throw(c, kind) ==
  /\ pc' = [pc EXCEPT ![c] = "catch"]
  /\ err' = [err EXCEPT ![c] = [kind |-> kind, at |-> pc[c]]]

\* new Date(): the clock has not gone back since it was last read
Clock(t) == t \in TimePoints /\ t >= now


\* ---------------------------------------------------------- createBooking
\* validateBooking, session.startTransaction, Event.findById issued
StartCreate(c, u, e, n) ==
  /\ Accept(c)
  /\ req' = [req EXCEPT ![c] = [op |-> "create", user |-> u, event |-> e,
                                seats |-> n, id |-> 0]]
  /\ IF ValidBookingBody(e, n)
     THEN /\ pc' = [pc EXCEPT ![c] = "c_findEvent"]
          /\ txn' = [txn EXCEPT ![c] = "active"]
          /\ res' = [res EXCEPT ![c] = NoResult]
          /\ lin' = [lin EXCEPT ![c] = [res |-> NoResult, ok |-> TRUE]]
     ELSE /\ pc' = [pc EXCEPT ![c] = "done"]
          /\ txn' = [txn EXCEPT ![c] = "none"]
          /\ res' = [res EXCEPT ![c] = ValidationError]
          /\ lin' = [lin EXCEPT ![c] = LinAt(Db, req'[c], now, Db)]
  /\ UNCHANGED <<now, store, snap, wset, hist>>

\* Event.findById resolves (the transaction's first read fixes its snapshot);
\* existence and date checks against new Date() = t; Booking.findOne issued
CreateFindEvent(c, t) ==
  /\ pc[c] = "c_findEvent"
  /\ Clock(t)
  /\ now' = t
  /\ IF req[c].event \notin DOMAIN events
     THEN Reject(c, EventNotFound, Db, t)
     ELSE IF events[req[c].event].date < t
     THEN Reject(c, PastEvent, Db, t)
     ELSE /\ pc' = [pc EXCEPT ![c] = "c_findExisting"]
          /\ snap' = [snap EXCEPT ![c] = <<Db>>]
          /\ tobs' = [tobs EXCEPT ![c] = t]
          /\ UNCHANGED <<res, txn, wset, lin>>
  /\ UNCHANGED <<store, req, err, hist, serial>>

\* (a duplicate check that counts cancelled bookings too)
ExistingBookingAnyStatus(c) ==
  \E i \in 1..Len(Seen(c).bookings) :
    /\ Seen(c).bookings[i].user = req[c].user
    /\ Seen(c).bookings[i].event = req[c].event
ExistingBookingAs(c) == FALSE
ExistingBookingSameSeats(c) ==
  \E i \in 1..Len(Seen(c).bookings) :
    /\ Seen(c).bookings[i].user = req[c].user
    /\ Seen(c).bookings[i].event = req[c].event
    /\ Seen(c).bookings[i].status = "confirmed"
    /\ Seen(c).bookings[i].seatsBooked = req[c].seats
ExistingBooking(c) ==
  \E i \in 1..Len(Seen(c).bookings) :
    /\ Seen(c).bookings[i].user = req[c].user
    /\ Seen(c).bookings[i].event = req[c].event
    /\ Seen(c).bookings[i].status = "confirmed"

\* the local event document as findById returned it
LocalEvent(c) == Seen(c).events[req[c].event]

NotEnoughSeatsAs(c) == FALSE
NotEnoughSeats(c) == LocalEvent(c).availableSeats < req[c].seats

\* the count in the message `Only ${event.availableSeats} seats available`
RemainingSeatsAs(c) == LocalEvent(c).totalSeats
RemainingSeats(c) == LocalEvent(c).availableSeats

TotalAmountAs(c) == LocalEvent(c).price
TotalAmount(c) == LocalEvent(c).price * req[c].seats

\* (the capacity check placed before the duplicate check)
CreateFindExistingSeatsFirst(c) ==
  /\ pc[c] = "c_findExisting"
  /\ IF NotEnoughSeats(c)
     THEN Reject(c, OnlySeats(RemainingSeats(c)), Seen(c), tobs[c])
     ELSE IF ExistingBooking(c)
     THEN Reject(c, Duplicate, Seen(c), tobs[c])
     ELSE /\ pc' = [pc EXCEPT ![c] = "c_saveBooking"]
          /\ UNCHANGED <<res, txn, snap, wset, lin, tobs>>
  /\ UNCHANGED <<now, store, req, err, hist, serial>>

\* Booking.findOne resolves; duplicate and capacity checks; new Booking; save issued
CreateFindExisting(c) ==
  /\ pc[c] = "c_findExisting"
  /\ IF ExistingBooking(c)
     THEN Reject(c, Duplicate, Seen(c), tobs[c])
     ELSE IF NotEnoughSeats(c)
     THEN Reject(c, OnlySeats(RemainingSeats(c)), Seen(c), tobs[c])
     ELSE /\ pc' = [pc EXCEPT ![c] = "c_saveBooking"]
          /\ UNCHANGED <<res, txn, snap, wset, lin, tobs>>
  /\ UNCHANGED <<now, store, req, err, hist, serial>>

\* booking.save({session}): the insert joins the transaction
CreateSaveBooking(c) ==
  /\ pc[c] = "c_saveBooking"
  /\ wset' = [wset EXCEPT ![c].newBooking =
                <<NewBooking(req[c].user, req[c].event, req[c].seats,
                             TotalAmount(c), "confirmed")>>]
  /\ pc' = [pc EXCEPT ![c] = "c_saveEvent"]
  /\ UNCHANGED <<now, store, req, snap, txn, res, err, tobs, lin, hist, serial>>

\* (a save that waits for the holder of the document instead of throwing)
CreateSaveEventAs(c) ==
  /\ pc[c] = "c_saveEvent"
  /\ ~EventHeldByOther(c, req[c].event)
  /\ IF EventWriteConflict(c, req[c].event)
     THEN /\ Throw(c, "WriteConflict")
          /\ lin' = [lin EXCEPT ![c] = LinAt(Db, req[c], tobs[c], Db)]
          /\ UNCHANGED wset
     ELSE /\ wset' = [wset EXCEPT ![c].seats =
                        <<[event |-> req[c].event,
                           availableSeats |-> LocalEvent(c).availableSeats - req[c].seats]>>]
          /\ pc' = [pc EXCEPT ![c] = "c_commit"]
          /\ UNCHANGED <<err, lin>>
  /\ UNCHANGED <<now, store, req, snap, txn, res, tobs, hist, serial>>

\* event.availableSeats -= seatsBooked; event.save({session})
CreateSaveEvent(c) ==
  /\ pc[c] = "c_saveEvent"
  /\ IF EventWriteConflict(c, req[c].event)
     THEN /\ Throw(c, "WriteConflict")
          /\ lin' = [lin EXCEPT ![c] = LinAt(Db, req[c], tobs[c], Db)]
          /\ UNCHANGED wset
     ELSE /\ wset' = [wset EXCEPT ![c].seats =
                        <<[event |-> req[c].event,
                           availableSeats |-> LocalEvent(c).availableSeats - req[c].seats]>>]
          /\ pc' = [pc EXCEPT ![c] = "c_commit"]
          /\ UNCHANGED <<err, lin>>
  /\ UNCHANGED <<now, store, req, snap, txn, res, tobs, hist, serial>>

\* session.commitTransaction(): both writes become visible together
CreateCommit(c) ==
  /\ pc[c] = "c_commit"
  /\ events' = ApplyEvents(events, wset[c])
  /\ bookings' = ApplyBookings(bookings, wset[c])
  /\ madeBy' = madeBy \o [i \in 1..Len(wset[c].newBooking) |-> cid[c]]
  /\ restored' = restored \o [i \in 1..Len(wset[c].newBooking) |->
                                [seats |-> 0, times |-> 0, by |-> 0]]
  /\ lin' = [lin EXCEPT ![c] = LinAt(Db, req[c], tobs[c],
                                     [events |-> events', bookings |-> bookings'])]
  /\ txn' = [txn EXCEPT ![c] = "committed"]
  /\ wset' = [wset EXCEPT ![c] = NoWrites]
  /\ snap' = [snap EXCEPT ![c] = <<>>]
  /\ pc' = [pc EXCEPT ![c] = "c_populate"]
  /\ tobs' = [tobs EXCEPT ![c] = 0]
  /\ UNCHANGED <<now, req, res, err, sold, serial>>

\* booking.populate resolves; res.status(201).json; endSession
CreatePopulate(c) ==
  /\ pc[c] = "c_populate"
  /\ res' = [res EXCEPT ![c] = Created]
  /\ sold' = [sold EXCEPT ![req[c].event] = @ + req[c].seats]
  /\ pc' = [pc EXCEPT ![c] = "done"]
  /\ UNCHANGED <<now, store, req, snap, wset, txn, err, tobs, lin,
                 madeBy, restored, serial>>

CatchAs(c) ==
  /\ pc[c] = "catch"
  /\ pc' = [pc EXCEPT ![c] = "done"]
  /\ txn' = [txn EXCEPT ![c] = IF txn[c] = "committed" THEN "committed" ELSE "aborted"]
  /\ res' = [res EXCEPT ![c] =
               IF req[c].op = "create" THEN ErrorCreating ELSE ErrorCancelling]
  /\ bookings' = ApplyBookings(bookings, wset[c])
  /\ madeBy' = madeBy \o [i \in 1..Len(wset[c].newBooking) |-> cid[c]]
  /\ restored' = [i \in 1..Len(restored) |->
                    IF i \in wset[c].cancelled THEN [restored[i] EXCEPT !.by = cid[c]]
                    ELSE restored[i]]
                  \o [i \in 1..Len(wset[c].newBooking) |->
                        [seats |-> 0, times |-> 0, by |-> 0]]
  /\ wset' = [wset EXCEPT ![c] = NoWrites]
  /\ snap' = [snap EXCEPT ![c] = <<>>]
  /\ tobs' = [tobs EXCEPT ![c] = 0]
  /\ UNCHANGED <<now, events, req, err, lin, sold, serial>>

\* catch block: session.abortTransaction() (it throws once the transaction has
\* committed, and then no response is sent); res.status(500).json; endSession
Catch(c) ==
  /\ pc[c] = "catch"
  /\ pc' = [pc EXCEPT ![c] = "done"]
  /\ IF txn[c] = "committed"
     THEN UNCHANGED <<res, txn>>
     ELSE /\ txn' = [txn EXCEPT ![c] = "aborted"]
          /\ res' = [res EXCEPT ![c] =
                       IF req[c].op = "create" THEN ErrorCreating ELSE ErrorCancelling]
  /\ wset' = [wset EXCEPT ![c] = NoWrites]
  /\ snap' = [snap EXCEPT ![c] = <<>>]
  /\ tobs' = [tobs EXCEPT ![c] = 0]
  /\ UNCHANGED <<now, store, req, err, lin, hist, serial>>

\* ---------------------------------------------------------- cancelBooking
\* session.startTransaction, Booking.findOne issued
StartCancel(c, u, id) ==
  /\ Accept(c)
  /\ req' = [req EXCEPT ![c] = [op |-> "cancel", user |-> u, event |-> "",
                                seats |-> 0, id |-> id]]
  /\ pc' = [pc EXCEPT ![c] = "x_findBooking"]
  /\ txn' = [txn EXCEPT ![c] = "active"]
  /\ res' = [res EXCEPT ![c] = NoResult]
  /\ lin' = [lin EXCEPT ![c] = [res |-> NoResult, ok |-> TRUE]]
  /\ UNCHANGED <<now, store, snap, wset, hist>>

IsCancelledAs(booking) == FALSE
IsCancelled(booking) == booking.status = "cancelled"

\* Booking.findOne({ _id: id, user: userId }) finds a document
FindOwnBookingAs(bs, id, user) == id \in 1..Len(bs)
FindOwnBooking(bs, id, user) == id \in 1..Len(bs) /\ bs[id].user = user

\* Booking.findOne({_id, user}) resolves (first read: snapshot); ownership and
\* status checks; Event.findById issued
CancelFindBooking(c) ==
  /\ pc[c] = "x_findBooking"
  /\ IF ~FindOwnBooking(bookings, req[c].id, req[c].user)
     THEN Reject(c, BookingNotFound, Db, now)
     ELSE IF IsCancelled(bookings[req[c].id])
     THEN Reject(c, AlreadyCancelled, Db, now)
     ELSE /\ pc' = [pc EXCEPT ![c] = "x_findEvent"]
          /\ snap' = [snap EXCEPT ![c] = <<Db>>]
          /\ UNCHANGED <<res, txn, wset, lin, tobs>>
  /\ UNCHANGED <<now, store, req, err, hist, serial>>

\* the local booking document as findOne returned it
LocalBooking(c) == Seen(c).bookings[req[c].id]

HoursDifference(eventDate, t) == eventDate - t

\* if (hoursDifference < 24)
TooCloseAs(hours) == hours <= CancelCutoffHours
TooClose(hours) == hours < CancelCutoffHours

\* Event.findById(booking.event) resolves; existence and 24-hour checks against
\* new Date() = t; booking.status = "cancelled"; booking.save issued
CancelFindEvent(c, t) ==
  /\ pc[c] = "x_findEvent"
  /\ Clock(t)
  /\ now' = t
  /\ IF LocalBooking(c).event \notin DOMAIN Seen(c).events
     THEN Reject(c, EventNotFound, Seen(c), t)
     ELSE IF TooClose(HoursDifference(Seen(c).events[LocalBooking(c).event].date, t))
     THEN Reject(c, TooLate, Seen(c), t)
     ELSE /\ pc' = [pc EXCEPT ![c] = "x_saveBooking"]
          /\ tobs' = [tobs EXCEPT ![c] = t]
          /\ UNCHANGED <<res, txn, snap, wset, lin>>
  /\ UNCHANGED <<store, req, err, hist, serial>>

\* booking.save({session}): the status update joins the transaction
CancelSaveBooking(c) ==
  /\ pc[c] = "x_saveBooking"
  /\ IF BookingWriteConflict(c, req[c].id)
     THEN /\ Throw(c, "WriteConflict")
          /\ lin' = [lin EXCEPT ![c] = LinAt(Db, req[c], tobs[c], Db)]
          /\ UNCHANGED wset
     ELSE /\ wset' = [wset EXCEPT ![c].cancelled = {req[c].id}]
          /\ pc' = [pc EXCEPT ![c] = "x_saveEvent"]
          /\ UNCHANGED <<err, lin>>
  /\ UNCHANGED <<now, store, req, snap, txn, res, tobs, hist, serial>>

SeatsToRestoreAs(c) == 1
SeatsToRestore(c) == LocalBooking(c).seatsBooked

\* event.availableSeats += booking.seatsBooked; event.save({session})
CancelSaveEvent(c) ==
  /\ pc[c] = "x_saveEvent"
  /\ IF EventWriteConflict(c, LocalBooking(c).event)
     THEN /\ Throw(c, "WriteConflict")
          /\ lin' = [lin EXCEPT ![c] = LinAt(Db, req[c], tobs[c], Db)]
          /\ UNCHANGED wset
     ELSE /\ wset' = [wset EXCEPT ![c].seats =
                        <<[event |-> LocalBooking(c).event,
                           availableSeats |->
                             Seen(c).events[LocalBooking(c).event].availableSeats
                               + SeatsToRestore(c)]>>]
          /\ pc' = [pc EXCEPT ![c] = "x_commit"]
          /\ UNCHANGED <<err, lin>>
  /\ UNCHANGED <<now, store, req, snap, txn, res, tobs, hist, serial>>

\* session.commitTransaction(); res.json; endSession
CancelCommit(c) ==
  /\ pc[c] = "x_commit"
  /\ events' = ApplyEvents(events, wset[c])
  /\ bookings' = ApplyBookings(bookings, wset[c])
  /\ restored' = [i \in 1..Len(restored) |->
                    IF i \in wset[c].cancelled
                    THEN [seats |-> restored[i].seats
                                      + events'[bookings[i].event].availableSeats
                                      - events[bookings[i].event].availableSeats,
                          times |-> restored[i].times + 1,
                          by |-> cid[c]]
                    ELSE restored[i]]
  /\ lin' = [lin EXCEPT ![c] = LinAt(Db, req[c], tobs[c],
                                     [events |-> events', bookings |-> bookings'])]
  /\ txn' = [txn EXCEPT ![c] = "committed"]
  /\ wset' = [wset EXCEPT ![c] = NoWrites]
  /\ snap' = [snap EXCEPT ![c] = <<>>]
  /\ res' = [res EXCEPT ![c] = Cancelled]
  /\ pc' = [pc EXCEPT ![c] = "done"]
  /\ tobs' = [tobs EXCEPT ![c] = 0]
  /\ UNCHANGED <<now, req, err, madeBy, sold, serial>>

\* ------------------------------------------------------------ environment
\* the awaits at which a persistence operation can reject
FaultPoints == {"c_findEvent", "c_findExisting", "c_saveBooking", "c_saveEvent",
                "c_populate", "x_findBooking", "x_findEvent", "x_saveBooking",
                "x_saveEvent"}

\* the awaited operation rejects: control moves to the catch block
Fault(c) ==
  /\ pc[c] \in FaultPoints
  /\ faults < MaxFaults
  /\ faults' = faults + 1
  /\ Throw(c, "fault")
  /\ UNCHANGED <<now, store, req, snap, wset, txn, res, tobs, lin, hist, ops, cid, got, app>>

Next ==
  \/ \E c \in Calls, i \in CreateInputs : StartCreate(c, i[1], i[2], i[3])
  \/ \E c \in Calls, t \in TimePoints : CreateFindEvent(c, t)
  \/ \E c \in Calls : CreateFindExisting(c)
  \/ \E c \in Calls : CreateSaveBooking(c)
  \/ \E c \in Calls : CreateSaveEvent(c)
  \/ \E c \in Calls : CreateCommit(c)
  \/ \E c \in Calls : CreatePopulate(c)
  \/ \E c \in Calls, i \in CancelInputs : StartCancel(c, i[1], i[2])
  \/ \E c \in Calls, t \in TimePoints : CancelFindEvent(c, t)
  \/ \E c \in Calls : CancelFindBooking(c)
  \/ \E c \in Calls : CancelSaveBooking(c)
  \/ \E c \in Calls : CancelSaveEvent(c)
  \/ \E c \in Calls : CancelCommit(c)
  \/ \E c \in Calls : Catch(c)
  \/ \E c \in Calls : Fault(c)

Spec == Init /\ [][Next]_vars

\* the continuation of handler c that runs when its awaited operation settles
Step(c) ==
  \/ \E t \in TimePoints : CreateFindEvent(c, t)
  \/ CreateFindExisting(c)
  \/ CreateSaveBooking(c)
  \/ CreateSaveEvent(c)
  \/ CreateCommit(c)
  \/ CreatePopulate(c)
  \/ \E t \in TimePoints : CancelFindEvent(c, t)
  \/ CancelFindBooking(c)
  \/ CancelSaveBooking(c)
  \/ CancelSaveEvent(c)
  \/ CancelCommit(c)
  \/ Catch(c)

\* every awaited database operation settles and the event loop then runs the
\* handler's continuation
LiveSpec == Spec /\ \A c \in Calls : WF_vars(Step(c))


\* ------------------------------------------------------ the read handlers
\* read requests: <<user, status, page, limit>>, <<user, booking id>>,
\* <<status, eventId, userId, page, limit>>, <<eventId, status, page, limit>>
UserListInputs == {<<"A", "", 1, 10>>, <<"B", "confirmed", 1, 1>>}
ByIdInputs == {<<"A", 1>>, <<"B", 1>>}
AllListInputs == {<<"", "", "", 1, 10>>}
EventListInputs == {<<"e1", "", 1, 10>>, <<NoEvent, "", 1, 10>>}

Ok == Result(200, "", 0)
ErrorFetching(op) ==
  Result(500, CASE op = "getUserBookings" -> "Error fetching bookings"
                [] op = "getBookingById" -> "Error fetching booking"
                [] op = "getAllBookings" -> "Error fetching all bookings"
                [] OTHER -> "Error fetching event bookings", 0)

ReadRequest(op, user, owner, event, status, page, limit, id) ==
  [op |-> op, user |-> user, owner |-> owner, event |-> event, seats |-> 0,
   id |-> id, status |-> status, page |-> page, limit |-> limit]

\* (a user listing that leaves the owner out of its filter)
QueryNoOwner(r) ==
  IF r.op = "getAllBookings" THEN [user |-> r.owner, event |-> r.event, status |-> r.status]
  ELSE IF r.op = "getUserBookings" THEN [user |-> "", event |-> "", status |-> r.status]
  ELSE [user |-> "", event |-> r.event, status |-> r.status]

\* the filter a listing builds from its request ("" : the field is not filtered on)
Query(r) ==
  IF r.op = "getUserBookings" THEN [user |-> r.user, event |-> "", status |-> r.status]
  ELSE IF r.op = "getAllBookings" THEN [user |-> r.owner, event |-> r.event, status |-> r.status]
  ELSE [user |-> "", event |-> r.event, status |-> r.status]

Matches(b, q) ==
  /\ q.user = "" \/ b.user = q.user
  /\ q.event = "" \/ b.event = q.event
  /\ q.status = "" \/ b.status = q.status

Matching(bs, q) == {i \in 1..Len(bs) : Matches(bs[i], q)}

PageNum(page) == IF page > 1 THEN page ELSE 1
LimitNum(limit) ==
  LET capped == IF limit < 50 THEN limit ELSE 50
  IN IF capped > 1 THEN capped ELSE 1
Pages(total, limit) == (total + limit - 1) \div limit

\* the createdAt of booking i, as far as its order matters: the bookings of the
\* seed script are inserted by one Booking.create call and can carry the same
\* timestamp; a booking made by createBooking is newer than all before it
CreatedAt(i) == IF madeBy[i] = 0 THEN 0 ELSE i

\* sort({createdAt: -1}): newest first; the order among bookings with equal
\* createdAt is left to the database and can differ from query to query
RECURSIVE SortOrders(_)
SortOrders(S) ==
  IF S = {} THEN {<<>>}
  ELSE LET newest == {i \in S : \A j \in S : CreatedAt(j) <= CreatedAt(i)}
       IN UNION {{<<m>> \o t : t \in SortOrders(S \ {m})} : m \in newest}

Sorted(bs, q) == SortOrders(Matching(bs, q))

Listed(bs, i) == [id |-> i, user |-> bs[i].user, event |-> bs[i].event,
                  seatsBooked |-> bs[i].seatsBooked, totalAmount |-> bs[i].totalAmount,
                  status |-> bs[i].status]

\* Booking.find(query).sort({createdAt: -1}).skip(skip).limit(limitNum)
FindPage(bs, all, page, limit) ==
  LET skip == (PageNum(page) - 1) * LimitNum(limit)
      last == IF skip + LimitNum(limit) < Len(all) THEN skip + LimitNum(limit) ELSE Len(all)
  IN [k \in 1..(IF last > skip THEN last - skip ELSE 0) |-> Listed(bs, all[skip + k])]

CountDocuments(bs, q) == Cardinality(Matching(bs, q))

\* the pagination object of a listing's response
WithPagination(data, r, total) ==
  [data EXCEPT !.total = total,
               !.page = PageNum(r.page),
               !.limit = LimitNum(r.limit),
               !.pages = Pages(total, LimitNum(r.limit))]

\* (one group for all the bookings of the event)
AggregateMerged(bs, e) ==
  LET of == {i \in 1..Len(bs) : bs[i].event = e}
      sum(f) == SumSeq([i \in 1..Len(bs) |-> IF i \in of THEN bs[i][f] ELSE 0])
  IN [st \in {st \in {"confirmed"} : of # {}} |->
        [count |-> Cardinality(of),
         totalSeats |-> sum("seatsBooked"),
         totalRevenue |-> sum("totalAmount")]]
\* Booking.aggregate: $match the event, $group by status
Aggregate(bs, e) ==
  LET of(st) == {i \in 1..Len(bs) : bs[i].event = e /\ bs[i].status = st}
      sum(st, f) == SumSeq([i \in 1..Len(bs) |-> IF i \in of(st) THEN bs[i][f] ELSE 0])
  IN [st \in {st \in {"confirmed", "cancelled", "pending"} : of(st) # {}} |->
        [count |-> Cardinality(of(st)),
         totalSeats |-> sum(st, "seatsBooked"),
         totalRevenue |-> sum(st, "totalAmount")]]

\* a read handler starts: its first query is issued
StartRead(c, r, at) ==
  /\ Accept(c)
  /\ req' = [req EXCEPT ![c] = r]
  /\ pc' = [pc EXCEPT ![c] = at]
  /\ txn' = [txn EXCEPT ![c] = "none"]
  /\ res' = [res EXCEPT ![c] = NoResult]
  /\ lin' = [lin EXCEPT ![c] = [res |-> NoResult, ok |-> TRUE]]
  /\ UNCHANGED <<now, store, snap, wset, hist>>

\* what a step of a read handler leaves alone
ReadFrame == UNCHANGED <<now, store, req, snap, wset, txn, err, tobs, lin, hist,
                         ops, faults, cid, app>>

\* one query of a listing resolves and the next is issued
ReadOn(c, at, next, data) ==
  /\ pc[c] = at
  /\ got' = [got EXCEPT ![c] = data]
  /\ pc' = [pc EXCEPT ![c] = next]
  /\ UNCHANGED res
  /\ ReadFrame

\* the last query resolves: res.json
ReadAnswer(c, at, r, data) ==
  /\ pc[c] = at
  /\ got' = [got EXCEPT ![c] = data]
  /\ res' = [res EXCEPT ![c] = r]
  /\ pc' = [pc EXCEPT ![c] = "done"]
  /\ ReadFrame

\* getUserBookings
StartUserList(c, u, status, page, limit) ==
  StartRead(c, ReadRequest("getUserBookings", u, "", "", status, page, limit, 0), "u_find")

UserListFind(c) ==
  /\ pc[c] = "u_find"
  /\ \E all \in Sorted(bookings, Query(req[c])) :
    ReadOn(c, "u_find", "u_count",
           [got[c] EXCEPT !.bookings = FindPage(bookings, all,
                                                req[c].page, req[c].limit)])

UserListCount(c) ==
  ReadAnswer(c, "u_count", Ok,
             WithPagination(got[c], req[c], CountDocuments(bookings, Query(req[c]))))

\* getBookingById
StartById(c, u, id) ==
  StartRead(c, ReadRequest("getBookingById", u, "", "", "", 0, 0, id), "b_find")

ByIdFind(c) ==
  IF FindOwnBooking(bookings, req[c].id, req[c].user)
  THEN ReadAnswer(c, "b_find", Ok,
                  [got[c] EXCEPT !.bookings = <<Listed(bookings, req[c].id)>>])
  ELSE ReadAnswer(c, "b_find", BookingNotFound, got[c])

\* getAllBookings
StartAllList(c, status, e, owner, page, limit) ==
  StartRead(c, ReadRequest("getAllBookings", "admin", owner, e, status, page, limit, 0),
            "a_find")

AllListFind(c) ==
  /\ pc[c] = "a_find"
  /\ \E all \in Sorted(bookings, Query(req[c])) :
    ReadOn(c, "a_find", "a_count",
           [got[c] EXCEPT !.bookings = FindPage(bookings, all,
                                                req[c].page, req[c].limit)])

AllListCount(c) ==
  ReadAnswer(c, "a_count", Ok,
             WithPagination(got[c], req[c], CountDocuments(bookings, Query(req[c]))))

\* getEventBookings
StartEventList(c, e, status, page, limit) ==
  StartRead(c, ReadRequest("getEventBookings", "admin", "", e, status, page, limit, 0),
            "v_findEvent")

EventListFindEvent(c) ==
  IF req[c].event \in DOMAIN events
  THEN ReadOn(c, "v_findEvent", "v_find", got[c])
  ELSE ReadAnswer(c, "v_findEvent", EventNotFound, got[c])

EventListFind(c) ==
  /\ pc[c] = "v_find"
  /\ \E all \in Sorted(bookings, Query(req[c])) :
    ReadOn(c, "v_find", "v_count",
           [got[c] EXCEPT !.bookings = FindPage(bookings, all,
                                                req[c].page, req[c].limit)])

EventListCount(c) ==
  ReadOn(c, "v_count", "v_aggregate",
         WithPagination(got[c], req[c], CountDocuments(bookings, Query(req[c]))))

EventListAggregate(c) ==
  ReadAnswer(c, "v_aggregate", Ok,
             [got[c] EXCEPT !.stats = Aggregate(bookings, req[c].event)])

ReadPoints == {"u_find", "u_count", "b_find", "a_find", "a_count",
               "v_findEvent", "v_find", "v_count", "v_aggregate"}

\* a query of a read handler rejects: its catch block answers 500
ReadFault(c) ==
  /\ pc[c] \in ReadPoints
  /\ faults < MaxFaults
  /\ faults' = faults + 1
  /\ pc' = [pc EXCEPT ![c] = "done"]
  /\ err' = [err EXCEPT ![c] = [kind |-> "fault", at |-> pc[c]]]
  /\ res' = [res EXCEPT ![c] = ErrorFetching(req[c].op)]
  /\ UNCHANGED <<now, store, req, snap, wset, txn, tobs, lin, hist, ops, cid, got, app>>

\* ------------------------------------------------- the admin's event form
\* what the admin has typed into the form of the edit screen
EditForms == {[price |-> Price + 1, totalSeats |-> Capacity, availableSeats |-> Capacity],
              [price |-> Price, totalSeats |-> Capacity, availableSeats |-> 0],
              [price |-> Price, totalSeats |-> Capacity, availableSeats |-> Capacity + 1]}

\* handleUpdateEvent: the checks that let the form be submitted
SubmitsForm(form) ==
  /\ form.availableSeats <= form.totalSeats
  /\ form.price >= 0

\* the eventData sent with apiService.updateEvent
UpdatePayload(form) ==
  [price |-> form.price, totalSeats |-> form.totalSeats,
   availableSeats |-> form.availableSeats]

\* (an update that stores the request body as it comes)
UpdateEventAs(evs, e, payload) ==
  [evs EXCEPT ![e] = [@ EXCEPT !.price = payload.price,
                               !.availableSeats = payload.availableSeats,
                               !.ver = @ + 1]]

\* PUT /events/:id on the server: the event takes the new descriptive fields;
\* totalSeats stays as created and availableSeats is left to the bookings
UpdateEvent(evs, e, payload) ==
  [evs EXCEPT ![e] = [@ EXCEPT !.price = payload.price, !.ver = @ + 1]]

\* the admin saves the edit form of event e; the update, not being part of a
\* transaction, waits for a transaction that holds the document
AdminEdit(e, form) ==
  /\ ops < MaxOps
  /\ SubmitsForm(form)
  /\ ~\E d \in Calls :
        txn[d] = "active" /\ wset[d].seats # <<>> /\ wset[d].seats[1].event = e
  /\ events' = UpdateEvent(events, e, UpdatePayload(form))
  /\ ops' = ops + 1
  /\ UNCHANGED <<now, bookings, pc, req, snap, wset, txn, res, err, tobs, lin, hist,
                 faults, cid, got, app>>

NextAdmin ==
  \/ Next
  \/ \E c \in Calls, i \in UserListInputs : StartUserList(c, i[1], i[2], i[3], i[4])
  \/ \E c \in Calls : UserListFind(c)
  \/ \E c \in Calls : UserListCount(c)
  \/ \E c \in Calls, i \in ByIdInputs : StartById(c, i[1], i[2])
  \/ \E c \in Calls : ByIdFind(c)
  \/ \E c \in Calls, i \in AllListInputs : StartAllList(c, i[1], i[2], i[3], i[4], i[5])
  \/ \E c \in Calls : AllListFind(c)
  \/ \E c \in Calls : AllListCount(c)
  \/ \E c \in Calls, i \in EventListInputs : StartEventList(c, i[1], i[2], i[3], i[4])
  \/ \E c \in Calls : EventListFindEvent(c)
  \/ \E c \in Calls : EventListFind(c)
  \/ \E c \in Calls : EventListCount(c)
  \/ \E c \in Calls : EventListAggregate(c)
  \/ \E c \in Calls : ReadFault(c)
  \/ \E e \in DOMAIN events, form \in EditForms : AdminEdit(e, form)

SpecAdmin == Init /\ [][NextAdmin]_vars


\* ------------------------------------------------------------- two events
EventIdsTwo == {"e1", "e2"}
CreateInputsTwo == {<<"A", "e1", 2>>, <<"A", "e2", 2>>, <<"B", "e1", 2>>}
CancelInputsTwo == {<<"A", 1>>, <<"A", 2>>}

InitTwo ==
  /\ now = 0
  /\ events = [e \in EventIdsTwo |-> NewEvent]
  /\ bookings = <<>>
  /\ pc = [c \in Calls |-> "idle"]
  /\ req = [c \in Calls |-> NoRequest]
  /\ snap = [c \in Calls |-> <<>>]
  /\ wset = [c \in Calls |-> NoWrites]
  /\ txn = [c \in Calls |-> "none"]
  /\ res = [c \in Calls |-> NoResult]
  /\ err = [c \in Calls |-> NoError]
  /\ tobs = [c \in Calls |-> 0]
  /\ lin = [c \in Calls |-> [res |-> NoResult, ok |-> TRUE]]
  /\ madeBy = <<>>
  /\ restored = <<>>
  /\ sold = [e \in EventIdsTwo |-> 0]
  /\ ops = 0
  /\ faults = 0
  /\ cid = [c \in Calls |-> 0]
  /\ got = [c \in Calls |-> NoData]
  /\ app = NoScreen

NextTwo ==
  \/ \E c \in Calls, i \in CreateInputsTwo : StartCreate(c, i[1], i[2], i[3])
  \/ \E c \in Calls, i \in CancelInputsTwo : StartCancel(c, i[1], i[2])
  \/ \E c \in Calls : Step(c)
  \/ \E c \in Calls : Fault(c)

SpecTwo == InitTwo /\ [][NextTwo]_vars


\* ------------------------------------------------------- the seeded database
\* the bookings the seed script inserts (its first two users, first two events)
SeedBookings ==
  <<NewBooking("A", "e1", 2, 2 * Price, "confirmed"),
    NewBooking("B", "e2", 1, Price, "confirmed")>>

\* Event.findByIdAndUpdate(..., {$inc: {availableSeats: -seatsBooked}}) for each
SeedEvents ==
  [e \in EventIdsTwo |->
     [NewEvent EXCEPT !.availableSeats = @ - ConfirmedSeats(SeedBookings, e)]]

CreateInputsSeeded == {<<"B", "e1", 1>>, <<"A", "e2", 1>>}
CancelInputsSeeded == {<<"A", 1>>}
UserListInputsSeeded == {<<"A", "", 1, 1>>, <<"A", "", 2, 1>>,
                         <<"A", "cancelled", 1, 10>>, <<"B", "", 0, 0>>}
ByIdInputsSeeded == {<<"A", 1>>, <<"B", 1>>, <<"A", 3>>}
AllListInputsSeeded == {<<"", "", "", 1, 1>>, <<"", "", "", 2, 1>>,
                        <<"confirmed", "", "", 1, 51>>, <<"", "", "B", 3, 2>>}
EventListInputsSeeded == {<<"e1", "", 1, 10>>, <<"e1", "cancelled", 2, 1>>,
                          <<NoEvent, "", 1, 10>>}

InitSeeded ==
  /\ now = 0
  /\ events = SeedEvents
  /\ bookings = SeedBookings
  /\ pc = [c \in Calls |-> "idle"]
  /\ req = [c \in Calls |-> NoRequest]
  /\ snap = [c \in Calls |-> <<>>]
  /\ wset = [c \in Calls |-> NoWrites]
  /\ txn = [c \in Calls |-> "none"]
  /\ res = [c \in Calls |-> NoResult]
  /\ err = [c \in Calls |-> NoError]
  /\ tobs = [c \in Calls |-> 0]
  /\ lin = [c \in Calls |-> [res |-> NoResult, ok |-> TRUE]]
  /\ madeBy = [i \in 1..Len(SeedBookings) |-> 0]
  /\ restored = [i \in 1..Len(SeedBookings) |-> [seats |-> 0, times |-> 0, by |-> 0]]
  /\ sold = [e \in EventIdsTwo |-> 0]
  /\ ops = 0
  /\ faults = 0
  /\ cid = [c \in Calls |-> 0]
  /\ got = [c \in Calls |-> NoData]
  /\ app = NoScreen

NextSeeded ==
  \/ \E c \in Calls, i \in CreateInputsSeeded : StartCreate(c, i[1], i[2], i[3])
  \/ \E c \in Calls, i \in CancelInputsSeeded : StartCancel(c, i[1], i[2])
  \/ \E c \in Calls : Step(c)
  \/ \E c \in Calls, i \in UserListInputsSeeded :
        StartUserList(c, i[1], i[2], i[3], i[4])
  \/ \E c \in Calls : UserListFind(c)
  \/ \E c \in Calls : UserListCount(c)
  \/ \E c \in Calls, i \in ByIdInputsSeeded : StartById(c, i[1], i[2])
  \/ \E c \in Calls : ByIdFind(c)
  \/ \E c \in Calls, i \in AllListInputsSeeded :
        StartAllList(c, i[1], i[2], i[3], i[4], i[5])
  \/ \E c \in Calls : AllListFind(c)
  \/ \E c \in Calls : AllListCount(c)
  \/ \E c \in Calls, i \in EventListInputsSeeded :
        StartEventList(c, i[1], i[2], i[3], i[4])
  \/ \E c \in Calls : EventListFindEvent(c)
  \/ \E c \in Calls : EventListFind(c)
  \/ \E c \in Calls : EventListCount(c)
  \/ \E c \in Calls : EventListAggregate(c)
  \/ \E c \in Calls : ReadFault(c)

SpecSeeded == InitSeeded /\ [][NextSeeded]_vars


\* ------------------------------------------------------------ the mobile app
\* the event the app books: large enough for the selectors to pass the cap
AppEvent == [NewEvent EXCEPT !.totalSeats = AppCapacity, !.availableSeats = AppCapacity]

\* the user logged in to the app
AppUser == "A"

\* BookingContext.createBooking: apiClient.post("/bookings", {eventId, numberOfSeats})
BookingContextBody(eventId, numberOfSeats) ==
  [eventId |-> eventId, numberOfSeats |-> numberOfSeats]

\* apiService.createBooking(bookingData): client.post("/bookings", bookingData)
ApiServiceBody(eventId, numberOfTickets) ==
  [eventId |-> eventId, numberOfTickets |-> numberOfTickets]

\* bookingSchema as an object schema: both keys are required and no other key
\* is allowed
HasSchemaKeys(body) == DOMAIN body = {"event", "seatsBooked"}

\* POST /bookings with a JSON body: validateRequest(bookingSchema), then the
\* handler; a body without the schema's keys fails validation whatever it holds
PostBooking(c, u, body) ==
  IF HasSchemaKeys(body)
  THEN StartCreate(c, u, body.event, body.seatsBooked)
  ELSE StartCreate(c, u, "", 0)

\* the screen is opened for event e: the selector starts at 1
OpenScreen(screen, e) ==
  /\ app.screen = "none"
  /\ app' = [screen |-> screen, event |-> e,
             availableSeats |-> events[e].availableSeats,
             numberOfSeats |-> 1, seatsToBook |-> 1]
  /\ UNCHANGED <<now, store, pc, req, snap, wset, txn, res, err, tobs, lin, hist,
                 ops, faults, cid, got>>

CloseScreen ==
  /\ app.screen # "none"
  /\ app' = NoScreen
  /\ UNCHANGED <<now, store, pc, req, snap, wset, txn, res, err, tobs, lin, hist,
                 ops, faults, cid, got>>

\* BookingScreen: a press on the minus (change = -1) or plus (change = 1) button,
\* when it is not disabled
handleSeatChange(change) ==
  /\ app.screen = "BookingScreen"
  /\ IF change < 0 THEN ~(app.numberOfSeats <= 1)
     ELSE ~(app.numberOfSeats >= app.availableSeats \/ app.numberOfSeats >= 10)
  /\ LET newSeats == app.numberOfSeats + change
     IN app' = IF newSeats >= 1 /\ newSeats <= app.availableSeats /\ newSeats <= 10
               THEN [app EXCEPT !.numberOfSeats = newSeats]
               ELSE app
  /\ UNCHANGED <<now, store, pc, req, snap, wset, txn, res, err, tobs, lin, hist,
                 ops, faults, cid, got>>

\* BookEventScreen: the selector is shown for a bookable event
canBookEvent ==
  /\ app.screen = "BookEventScreen"
  /\ ~(events[app.event].date < now)
  /\ app.availableSeats > 0

Min(a, b) == IF a < b THEN a ELSE b
Max(a, b) == IF a > b THEN a ELSE b

\* BookEventScreen: a press on the minus button, when it is not disabled
PressMinus ==
  /\ canBookEvent
  /\ ~(app.seatsToBook <= 1)
  /\ app' = [app EXCEPT !.seatsToBook = Max(1, app.seatsToBook - 1)]
  /\ UNCHANGED <<now, store, pc, req, snap, wset, txn, res, err, tobs, lin, hist,
                 ops, faults, cid, got>>

\* BookEventScreen: a press on the plus button, when it is not disabled
PressPlus ==
  /\ canBookEvent
  /\ ~(app.seatsToBook >= app.availableSeats)
  /\ app' = [app EXCEPT !.seatsToBook = Min(app.availableSeats, app.seatsToBook + 1)]
  /\ UNCHANGED <<now, store, pc, req, snap, wset, txn, res, err, tobs, lin, hist,
                 ops, faults, cid, got>>

\* BookingScreen.handleBooking: createBooking(event._id, numberOfSeats)
handleBooking(c) ==
  /\ app.screen = "BookingScreen"
  /\ PostBooking(c, AppUser, BookingContextBody(app.event, app.numberOfSeats))

\* BookEventScreen.handleBookTicket, "Book Now" pressed
handleBookTicket(c) ==
  /\ canBookEvent
  /\ PostBooking(c, AppUser, ApiServiceBody(app.event, app.seatsToBook))

\* requests of another client, which names the fields as the schema does
CreateInputsApp == {<<"B", "e1", 2>>}
CancelInputsApp == {<<"B", 1>>}

InitApp ==
  /\ now = 0
  /\ events = [e \in EventIds |-> AppEvent]
  /\ bookings = <<>>
  /\ pc = [c \in Calls |-> "idle"]
  /\ req = [c \in Calls |-> NoRequest]
  /\ snap = [c \in Calls |-> <<>>]
  /\ wset = [c \in Calls |-> NoWrites]
  /\ txn = [c \in Calls |-> "none"]
  /\ res = [c \in Calls |-> NoResult]
  /\ err = [c \in Calls |-> NoError]
  /\ tobs = [c \in Calls |-> 0]
  /\ lin = [c \in Calls |-> [res |-> NoResult, ok |-> TRUE]]
  /\ madeBy = <<>>
  /\ restored = <<>>
  /\ sold = [e \in EventIds |-> 0]
  /\ ops = 0
  /\ faults = 0
  /\ cid = [c \in Calls |-> 0]
  /\ got = [c \in Calls |-> NoData]
  /\ app = NoScreen

NextApp ==
  \/ \E e \in EventIds : OpenScreen("BookingScreen", e)
  \/ \E e \in EventIds : OpenScreen("BookEventScreen", e)
  \/ CloseScreen
  \/ \E change \in {-1, 1} : handleSeatChange(change)
  \/ PressMinus
  \/ PressPlus
  \/ \E c \in Calls : handleBooking(c)
  \/ \E c \in Calls : handleBookTicket(c)
  \/ \E c \in Calls, i \in CreateInputsApp : StartCreate(c, i[1], i[2], i[3])
  \/ \E c \in Calls, i \in CancelInputsApp : StartCancel(c, i[1], i[2])
  \/ \E c \in Calls : Step(c)

SpecApp == InitApp /\ [][NextApp]_vars


\* ================================================================ claims
Done(c) == pc[c] = "done"
Succeeded(c) == Done(c) /\ res[c].code \in {200, 201}
LostConflict(c, op, at) ==
  /\ Done(c)
  /\ req[c].op = op
  /\ err[c] = [kind |-> "WriteConflict", at |-> at]
  /\ res[c].code = 500
BookingsOf(e) == {i \in 1..Len(bookings) : bookings[i].event = e}
NoCancelOn(e) == \A i \in BookingsOf(e) : restored[i].times = 0
MadeBy(c) == {i \in 1..Len(bookings) : madeBy[i] = cid[c]}
CancelledBy(c) == {i \in 1..Len(bookings) : restored[i].by = cid[c]}

\* C1 - no overselling: while only createBooking calls have run against an event
\* (no cancellation has committed on it), the seats summed over the create calls
\* answered with success never exceed the event's capacity, however the calls overlap.
C1_NoOverselling ==
  \A e \in EventIds : NoCancelOn(e) => sold[e] <= events[e].totalSeats

\* C1 witness: the event is sold out by successful creates and a create that
\* overlapped one of them lost the write conflict on the event.
C1_Witness ==
  /\ sold["e1"] = Capacity
  /\ NoCancelOn("e1")
  /\ \E c \in Calls : LostConflict(c, "create", "c_saveEvent")

\* C2 - conservation: in every reachable state, availableSeats plus the seats of the
\* event's confirmed bookings equals totalSeats.
C2_Conservation ==
  \A e \in EventIds :
    events[e].availableSeats + ConfirmedSeats(bookings, e) = events[e].totalSeats

\* C2 witness: after creates and a cancel, a confirmed and a cancelled booking coexist.
C2_Witness ==
  \E i, j \in 1..Len(bookings) :
    /\ bookings[i].status = "confirmed"
    /\ bookings[j].status = "cancelled"
    /\ restored[j].times = 1

\* C3 - at most one active booking: for every user and event, at most one booking
\* of that user on that event is confirmed, in every reachable state.
C3_AtMostOneActive ==
  \A u \in Users, e \in EventIds :
    Cardinality({i \in BookingsOf(e) :
                   bookings[i].user = u /\ bookings[i].status = "confirmed"}) <= 1

\* C3 witness: one user ran two overlapping creates on the same event; one
\* succeeded and the other lost the write conflict on the event document.
C3_Witness ==
  \E c, d \in Calls :
    /\ c # d
    /\ req[c].op = "create" /\ req[d].op = "create"
    /\ req[c].user = req[d].user /\ req[c].event = req[d].event
    /\ Done(c) /\ res[c] = Created
    /\ LostConflict(d, "create", "c_saveEvent")

\* a fault struck the handler between its two writes, before its commit
FaultedBetweenWrites(c) ==
  /\ err[c].kind = "fault"
  /\ err[c].at \in {"c_saveEvent", "x_saveEvent"}

\* C4 - atomicity under failure: once a fault has struck a handler between its two
\* writes, the committed collections never show either write of that handler: no
\* booking inserted or cancelled by it, its transaction is never committed, and the
\* seat counter still balances the confirmed bookings.
C4_Atomicity ==
  \A c \in Calls :
    FaultedBetweenWrites(c) =>
      /\ MadeBy(c) = {}
      /\ CancelledBy(c) = {}
      /\ txn[c] # "committed"
      /\ C2_Conservation

\* C4 witness: a create that faulted after its insert has been answered with 500.
C4_Witness ==
  \E c \in Calls :
    /\ Done(c)
    /\ req[c].op = "create"
    /\ err[c] = [kind |-> "fault", at |-> "c_saveEvent"]
    /\ res[c] = ErrorCreating


\* C5 - failure leaves no trace: a call that has ended without a success response
\* (a rejection, a 500, or no response at all after an error in the try block) has
\* left nothing in the collections: no booking inserted by it, none cancelled by it.
C5_FailureLeavesNoTrace ==
  \A c \in Calls :
    (Done(c) /\ ~Succeeded(c)) => (MadeBy(c) = {} /\ CancelledBy(c) = {})

\* C6 - cancellation is terminal and exact: a booking's cancellation commits at most
\* once and adds exactly the stored seatsBooked to availableSeats (nothing while the
\* booking is confirmed); and a cancel request whose first read finds its own booking
\* already cancelled is answered "already cancelled" and changes neither collection.
C6_ExactOnce ==
  \A i \in 1..Len(bookings) :
    /\ restored[i].times <= 1
    /\ restored[i].seats =
         IF bookings[i].status = "cancelled" THEN bookings[i].seatsBooked ELSE 0

C6_LateCancelRejected ==
  \A c \in Calls :
    ( /\ pc[c] = "x_findBooking"
      /\ pc'[c] = "done"
      /\ req[c].id \in 1..Len(bookings)
      /\ bookings[req[c].id].user = req[c].user
      /\ bookings[req[c].id].status = "cancelled" )
    => (res'[c] = AlreadyCancelled /\ store' = store /\ restored' = restored)

C6_CancelTerminalExact == []C6_ExactOnce /\ [][C6_LateCancelRejected]_vars

\* C6 witness: of two overlapping cancels of one booking, one committed (the seats
\* came back once) and the other lost the write conflict on the booking document.
C6_Witness ==
  /\ \E i \in 1..Len(bookings) :
       /\ bookings[i].status = "cancelled"
       /\ restored[i] .times = 1
       /\ events[bookings[i].event].availableSeats = events[bookings[i].event].totalSeats
  /\ \E c \in Calls : LostConflict(c, "cancel", "x_saveBooking")

\* C6 second case reached: a cancel of an already cancelled booking was turned away.
C6_WitnessLate ==
  \E c \in Calls : Done(c) /\ req[c].op = "cancel" /\ res[c] = AlreadyCancelled


\* a handler commits its transaction in this step
Commits(c) == txn[c] = "active" /\ txn'[c] = "committed"

\* C7 as amended - linearizability per event: the collections change only when a
\* handler commits, and the change is the one the same operation makes when run
\* alone on the collections as they are at that moment, where it succeeds; every
\* handler that ends without a thrown error answers what the operation run alone
\* answers at its linearization point (its commit, or its first read when it rejects),
\* and there changes nothing unless it is that commit; a handler that lost a write
\* conflict answers 500 with its transaction aborted.
C7_Step ==
  /\ store' # store =>
       \E c \in Calls : Commits(c) /\ lin'[c].ok /\ lin'[c].res.code \in {200, 201}
  /\ \A c \in Calls :
       /\ (pc'[c] = "done" /\ err'[c].kind = "none") =>
            (res'[c] = lin'[c].res /\ lin'[c].ok)
       /\ (pc'[c] = "done" /\ err'[c].kind = "WriteConflict") =>
            (res'[c].code = 500 /\ txn'[c] = "aborted")

C7_Linearizable == [][C7_Step]_vars

\* C7 witness: a create and a cancel overlapped on one event; the cancel committed
\* and the create lost the write conflict, so the seats are back at capacity.
C7_Witness ==
  /\ \E c \in Calls : Done(c) /\ req[c].op = "cancel" /\ res[c] = Cancelled
  /\ \E d \in Calls : LostConflict(d, "create", "c_saveEvent")

\* C7 as stated: the result of every call (none excepted but those an injected fault
\* struck) is the one a sequential execution returns; for a handler that lost a write
\* conflict that is the answer of the operation run alone when the conflict struck.
C7_Original ==
  \A c \in Calls :
    (Done(c) /\ err[c].kind # "fault") => (res[c] = lin[c].res /\ lin[c].ok)

\* C8 - seat counter bounds: 0 <= availableSeats <= totalSeats for every event in
\* every reachable state.
C8_SeatBounds ==
  \A e \in EventIds :
    events[e].availableSeats >= 0 /\ events[e].availableSeats <= events[e].totalSeats

\* C8 witness: creates have taken the counter down to 0, the lower bound.
C8_Witness ==
  /\ events["e1"].availableSeats = 0
  /\ ConfirmedSeats(bookings, "e1") = Capacity
  /\ \A c \in Calls : Done(c) /\ res[c] = Created

\* C9 - effect of a successful create: the commit of a create appends exactly one
\* booking (the caller's user and event, seatsBooked = n, status confirmed,
\* totalAmount = price * n), lowers that event's availableSeats by exactly n, and
\* changes no other booking and no other field; the success response follows with
\* the collections untouched.
C9_Step ==
  \A c \in Calls :
    /\ (req[c].op = "create" /\ Commits(c)) =>
         /\ Len(bookings') = Len(bookings) + 1
         /\ SubSeq(bookings', 1, Len(bookings)) = bookings
         /\ LET b == bookings'[Len(bookings')]
                e == req[c].event
            IN /\ b.user = req[c].user
               /\ b.event = e
               /\ b.seatsBooked = req[c].seats
               /\ b.status = "confirmed"
               /\ b.totalAmount = events[e].price * req[c].seats
               /\ events'[e].availableSeats = events[e].availableSeats - req[c].seats
               /\ events'[e].totalSeats = events[e].totalSeats
               /\ events'[e].price = events[e].price
               /\ events'[e].date = events[e].date
               /\ \A f \in EventIds \ {e} : events'[f] = events[f]
    /\ (res'[c] = Created /\ res[c] # Created) =>
         (txn[c] = "committed" /\ Cardinality(MadeBy(c)) = 1 /\ store' = store)

C9_CreateEffect == [][C9_Step]_vars

\* C9 witness: a create of 2 seats was answered 201; its booking costs 2 * Price.
C9_Witness ==
  \E c \in Calls :
    /\ Done(c) /\ res[c] = Created /\ req[c].seats = 2
    /\ \E i \in MadeBy(c) : bookings[i].totalAmount = 2 * Price

\* C10 - booking status state machine: a booking enters the collection confirmed,
\* the only status change is confirmed -> cancelled, a cancelled booking keeps its
\* status, and no booking is ever pending.
C10_NoPending ==
  \A i \in 1..Len(bookings) : bookings[i].status \in {"confirmed", "cancelled"}

C10_Step ==
  /\ Len(bookings') >= Len(bookings)
  /\ \A i \in 1..Len(bookings') :
       IF i > Len(bookings) THEN bookings'[i].status = "confirmed"
       ELSE \/ bookings'[i].status = bookings[i].status
            \/ bookings[i].status = "confirmed" /\ bookings'[i].status = "cancelled"

C10_StatusMachine == []C10_NoPending /\ [][C10_Step]_vars

\* C10 witness: a booking has gone from confirmed to cancelled, and a later cancel
\* of it was refused.
C10_Witness ==
  /\ \E i \in 1..Len(bookings) : bookings[i].status = "cancelled"
  /\ \E c \in Calls : Done(c) /\ res[c] = AlreadyCancelled

\* the handler's awaited operation resolves in this step (it is not hit by a fault)
Resolves(c, at) == pc[c] = at /\ pc'[c] \notin {at, "catch"}

\* the transaction of handler c saw a confirmed booking of its caller on its event
DupSeen(c) ==
  \E i \in 1..Len(Seen(c).bookings) :
    /\ Seen(c).bookings[i].user = req[c].user
    /\ Seen(c).bookings[i].event = req[c].event
    /\ Seen(c).bookings[i].status = "confirmed"

\* C11 - insufficient capacity: when the duplicate lookup of a create resolves and
\* the transaction saw no confirmed booking of the caller on the (existing, future)
\* event and fewer available seats than requested, the call ends rejected with
\* "Only n seats available", n being the availableSeats the transaction saw, and
\* neither collection changes; and that answer is given in no other case.
C11_Step ==
  \A c \in Calls :
    /\ ( /\ Resolves(c, "c_findExisting")
         /\ ~DupSeen(c)
         /\ req[c].seats > Seen(c).events[req[c].event].availableSeats )
       => /\ pc'[c] = "done"
          /\ res'[c] = OnlySeats(Seen(c).events[req[c].event].availableSeats)
          /\ store' = store
    /\ (res'[c] # res[c] /\ res'[c].message = "Only n seats available")
       => /\ pc[c] = "c_findExisting"
          /\ ~DupSeen(c)
          /\ req[c].seats > Seen(c).events[req[c].event].availableSeats
          /\ res'[c].n = Seen(c).events[req[c].event].availableSeats
          /\ Seen(c).events[req[c].event].date >= tobs[c]

C11_InsufficientCapacity == [][C11_Step]_vars

\* C11 witness: with one seat left, a request for two by a user who holds no
\* booking was answered "Only 1 seats available" and the seat is still there.
C11_Witness ==
  \E c \in Calls :
    /\ Done(c) /\ res[c] = OnlySeats(1)
    /\ req[c].user = "B" /\ req[c].seats = 2
    /\ events["e1"].availableSeats = 1
    /\ \A i \in 1..Len(bookings) : bookings[i].user # "B"

\* the committed collections hold a confirmed booking of the caller on the event
DupNow(c) ==
  \E i \in 1..Len(bookings) :
    /\ bookings[i].user = req[c].user
    /\ bookings[i].event = req[c].event
    /\ bookings[i].status = "confirmed"

\* C12 as amended - retry safety: a create whose first read comes while the caller
\* holds a confirmed booking on the event is rejected - as past event when the
\* event's date has passed at its clock read, as duplicate otherwise - unless a
\* persistence operation fails; in no case does it reach its writes, and the step
\* that rejects it changes neither collection.
C12_NeverWrites ==
  \A c \in Calls :
    pc[c] \in {"c_saveBooking", "c_saveEvent", "c_commit"} => ~DupSeen(c)

C12_Step ==
  \A c \in Calls :
    /\ (Resolves(c, "c_findEvent") /\ DupNow(c))
       => /\ store' = store
          /\ IF events[req[c].event].date < now'
             THEN pc'[c] = "done" /\ res'[c] = PastEvent
             ELSE pc'[c] = "c_findExisting" /\ snap'[c] = <<Db>>
    /\ (Resolves(c, "c_findExisting") /\ DupSeen(c))
       => (pc'[c] = "done" /\ res'[c] = Duplicate /\ store' = store)

C12_RetrySafety == []C12_NeverWrites /\ [][C12_Step]_vars

\* C12 witness: user A, holding a confirmed booking of 2 seats, asked again for 1
\* seat and was turned away as a duplicate; the first booking is all there is.
C12_Witness ==
  \E c \in Calls :
    /\ Done(c) /\ res[c] = Duplicate /\ req[c].user = "A" /\ req[c].seats = 1
    /\ Len(bookings) = 1
    /\ bookings[1].user = "A" /\ bookings[1].seatsBooked = 2
    /\ bookings[1].status = "confirmed"
    /\ events["e1"].availableSeats = Capacity - 2

\* C12 as stated: a create that runs alone, with a valid seat count, while the
\* caller holds a confirmed booking on the event ends rejected as duplicate.
C12_OriginalStep ==
  \A c \in Calls :
    ( /\ Resolves(c, "c_findEvent")
      /\ DupNow(c)
      /\ \A d \in Calls \ {c} : Free(d)
      /\ pc'[c] = "done" )
    => res'[c] = Duplicate

C12_Original == [][C12_OriginalStep]_vars

\* C13 - cancellation cutoff: a cancel of a confirmed booking goes on to its writes
\* only if the event's date is at least 24 hours after the clock the handler read
\* (exactly 24 hours lets it through); otherwise it ends rejected as too late with
\* both collections unchanged; and a cancellation commits only with that margin.
C13_Step ==
  \A c \in Calls :
    /\ Resolves(c, "x_findEvent")
       => LET date == Seen(c).events[Seen(c).bookings[req[c].id].event].date
          IN IF date - now' >= CancelCutoffHours
             THEN pc'[c] = "x_saveBooking" /\ tobs'[c] = now' /\ store' = store
             ELSE pc'[c] = "done" /\ res'[c] = TooLate /\ store' = store
    /\ (req[c].op = "cancel" /\ Commits(c))
       => events[bookings[req[c].id].event].date - tobs[c] >= CancelCutoffHours

C13_CancelCutoff == [][C13_Step]_vars

\* C13 witness: after one create, a cancel that read the clock exactly 24 hours
\* before the event succeeded and the seats are back.
C13_Witness ==
  /\ ops = 2
  /\ now = EventDate - CancelCutoffHours
  /\ \E c \in Calls : Done(c) /\ res[c] = Cancelled
  /\ events["e1"].availableSeats = Capacity

\* C13 second case reached: a cancel that read the clock 23 hours before the event
\* was rejected as too late; the booking is still confirmed.
C13_WitnessLate ==
  /\ ops = 2
  /\ now = EventDate - CancelCutoffHours + 1
  /\ \E c \in Calls : Done(c) /\ res[c] = TooLate
  /\ Len(bookings) = 1 /\ bookings[1].status = "confirmed"

\* C14 - cancellation ownership: a cancel whose booking id names no booking, or a
\* booking of another user, ends rejected as "Booking not found" with both
\* collections unchanged; and a committing cancel changes only a booking of its own
\* caller, and availableSeats only through that booking.
C14_Step ==
  \A c \in Calls :
    /\ ( /\ Resolves(c, "x_findBooking")
         /\ ~(req[c].id \in 1..Len(bookings) /\ bookings[req[c].id].user = req[c].user) )
       => (pc'[c] = "done" /\ res'[c] = BookingNotFound /\ store' = store)
    /\ (req[c].op = "cancel" /\ Commits(c))
       => /\ Len(bookings') = Len(bookings)
          /\ \A i \in 1..Len(bookings) :
               bookings'[i] # bookings[i] => bookings[i].user = req[c].user
          /\ \A e \in DOMAIN events :
               events'[e] # events[e] =>
                 \E i \in 1..Len(bookings) :
                   /\ bookings[i].user = req[c].user
                   /\ bookings[i].event = e
                   /\ bookings'[i].status # bookings[i].status

C14_Ownership == [][C14_Step]_vars

\* C14 witness: user B asked to cancel user A's booking and was answered "Booking
\* not found"; the booking is still confirmed and its seats still taken.
C14_Witness ==
  \E c \in Calls :
    /\ Done(c) /\ req[c].op = "cancel" /\ req[c].user = "B" /\ req[c].id = 1
    /\ res[c] = BookingNotFound
    /\ Len(bookings) >= 1 /\ bookings[1].user = "A" /\ bookings[1].status = "confirmed"
    /\ events["e1"].availableSeats = Capacity - bookings[1].seatsBooked

\* C15 - seat-count validation: a create request with seatsBooked below 1 or above
\* 10 is answered with a validation error before any transaction starts, leaving
\* both collections unchanged; and every stored booking has 1 <= seatsBooked <= 10.
C15_Range ==
  \A i \in 1..Len(bookings) :
    bookings[i].seatsBooked >= MinSeatsPerBooking
      /\ bookings[i].seatsBooked <= MaxSeatsPerBooking

C15_Step ==
  \A c \in Calls :
    ( /\ cid'[c] # cid[c]
      /\ req'[c].op = "create"
      /\ (req'[c].seats < 1 \/ req'[c].seats > 10) )
    => /\ pc'[c] = "done"
       /\ res'[c] = ValidationError
       /\ txn'[c] = "none"
       /\ store' = store

C15_SeatValidation == []C15_Range /\ [][C15_Step]_vars

\* C15 witness: a request for 0 seats and a request for 11 seats were both answered
\* with a validation error, and a valid booking is stored.
C15_Witness ==
  /\ \E c \in Calls : Done(c) /\ req[c].seats = 0 /\ res[c] = ValidationError
  /\ \E c \in Calls : Done(c) /\ req[c].seats = 11 /\ res[c] = ValidationError
  /\ Len(bookings) = 1

\* C16 - no booking of past events: when the event lookup of a create resolves
\* and the event's date is not after the clock the handler reads, the call ends
\* rejected as past event with both collections unchanged; and a create commits
\* only for an event whose date is after the clock its handler read.
C16_Step ==
  \A c \in Calls :
    /\ ( /\ Resolves(c, "c_findEvent")
         /\ req[c].event \in DOMAIN events
         /\ events[req[c].event].date <= now' )
       => (pc'[c] = "done" /\ res'[c] = PastEvent /\ store' = store)
    /\ (req[c].op = "create" /\ Commits(c))
       => events[req[c].event].date > tobs[c]

C16_NoPastBooking == [][C16_Step]_vars

\* the three results of createBooking the claim C17 tells apart
C17_Messages == {"Only n seats available", Duplicate.message, ErrorCreating.message}

\* C17 - error kinds are not conflated: two create calls answered for different
\* reasons among insufficient capacity, duplicate booking and persistence failure
\* carry different kinds, the kind of a response being its status code (the
\* message is its human-readable detail).
C17_KindsDistinct ==
  \A c, d \in Calls :
    ( /\ Done(c) /\ Done(d)
      /\ res[c].message \in C17_Messages
      /\ res[d].message \in C17_Messages
      /\ res[c].message # res[d].message )
    => res[c].code # res[d].code

\* handler c has lost a write conflict and has not answered yet
InConflict(c) == pc[c] = "catch" /\ err[c].kind = "WriteConflict"

\* C18 - contention is reported, not hung on: a handler is never blocked (the
\* continuation of a handler that is under way can always run, whatever the other
\* handlers hold); a write that meets a conflict throws with both collections
\* unchanged; the catch block then aborts the transaction and answers 500, again
\* with both collections unchanged; and the handler does get there.
C18_NeverBlocked ==
  \A c \in Calls : ~Free(c) => ENABLED Step(c)

C18_Step ==
  \A c \in Calls :
    /\ (~InConflict(c) /\ InConflict(c)') => store' = store
    /\ (InConflict(c) /\ ~InConflict(c)')
       => /\ pc'[c] = "done"
          /\ res'[c].code = 500
          /\ txn'[c] = "aborted"
          /\ store' = store
    /\ (InConflict(c) \/ InConflict(c)') => (MadeBy(c) = {} /\ CancelledBy(c) = {})

C18_Answered ==
  \A c \in Calls : InConflict(c) ~> (Done(c) /\ res[c].code = 500 /\ txn[c] = "aborted")

C18_ContentionReported == []C18_NeverBlocked /\ [][C18_Step]_vars /\ C18_Answered

\* C18 witness: a cancel overlapped a create on the same event, lost the write
\* conflict on the event document and was answered 500; its booking is still
\* confirmed and the create's booking is stored.
C18_Witness ==
  /\ \E d \in Calls : LostConflict(d, "cancel", "x_saveEvent") /\ txn[d] = "aborted"
  /\ \E c \in Calls : Done(c) /\ res[c] = Created
  /\ Len(bookings) = 2
  /\ \A i \in 1..Len(bookings) : bookings[i].status = "confirmed"

ReadOps == {"getUserBookings", "getBookingById", "getAllBookings", "getEventBookings"}

\* C19 - exclusive mutation of the seat counter: whenever an event's availableSeats
\* changes, the step is the commit of a createBooking on that event (the counter
\* goes down by the seats requested) or of a cancelBooking of a booking on that
\* event (it goes up by the booking's seats); no step of a read handler changes
\* either collection, and the admin's edit submission leaves availableSeats as it is.
C19_Step ==
  /\ \A e \in DOMAIN events :
       events'[e].availableSeats # events[e].availableSeats =>
         \E c \in Calls :
           /\ Commits(c)
           /\ \/ /\ req[c].op = "create"
                 /\ req[c].event = e
                 /\ events'[e].availableSeats = events[e].availableSeats - req[c].seats
              \/ /\ req[c].op = "cancel"
                 /\ bookings[req[c].id].event = e
                 /\ events'[e].availableSeats =
                      events[e].availableSeats + bookings[req[c].id].seatsBooked
  /\ \A c \in Calls :
       (req[c].op \in ReadOps /\ pc'[c] # pc[c] /\ req'[c] = req[c]) => store' = store
  /\ (ops' # ops /\ pc' = pc) =>
       \A e \in DOMAIN events : events'[e].availableSeats = events[e].availableSeats

ViewOf(c) == IF pc[c] \in {"c_findExisting", "x_findEvent"} THEN Seen(c) ELSE Db
TimeOf(c) == IF pc[c] \in {"c_findEvent", "x_findEvent"} THEN now' ELSE tobs[c]

\* the event a request is about, in the collections db ("" : none)
TargetEvent(db, r) ==
  IF r.op = "create" THEN r.event
  ELSE IF r.id \in 1..Len(db.bookings) THEN db.bookings[r.id].event ELSE ""

\* the collections db with every other event than e sold out and started, and
\* every booking of another event cancelled
Elsewhere(db, e) ==
  [events |-> [f \in DOMAIN db.events |->
                 IF f = e THEN db.events[f]
                 ELSE [db.events[f] EXCEPT !.availableSeats = 0, !.date = 0]],
   bookings |-> [i \in 1..Len(db.bookings) |->
                   IF db.bookings[i].event = e THEN db.bookings[i]
                   ELSE [db.bookings[i] EXCEPT !.status = "cancelled"]]]

\* the step in which the outcome of handler c is decided
Decides(c) ==
  /\ pc[c] \in {"c_findEvent", "c_findExisting", "c_commit",
                "x_findBooking", "x_findEvent", "x_commit"}
  /\ pc'[c] \in {"done", "c_populate"}

\* something of event e has been committed since handler c's first read, or is
\* held by the open transaction of another handler
ActivityOn(c, e) ==
  \/ events[e] # Seen(c).events[e]
  \/ \E i \in 1..Len(Seen(c).bookings) :
       Seen(c).bookings[i].event = e /\ bookings[i] # Seen(c).bookings[i]
  \/ \E d \in Calls \ {c} :
       /\ txn[d] = "active"
       /\ \/ wset[d].seats # <<>> /\ wset[d].seats[1].event = e
          \/ \E i \in wset[d].cancelled : bookings[i].event = e

\* C20 - independence of events: a step of a create or cancel handler about event e
\* changes no other event and no booking of another event; the outcome it decides
\* is the one the operation has when every other event and its bookings are in a
\* different state; and it loses a write conflict only when something of event e
\* itself was committed since its first read or is held by another transaction.
C20_Step ==
  \A c \in Calls :
    LET e == TargetEvent(ViewOf(c), req[c])
    IN /\ (req[c].op \in {"create", "cancel"} /\ pc'[c] # pc[c] /\ req'[c] = req[c])
          => /\ \A f \in DOMAIN events : f # e => events'[f] = events[f]
             /\ \A i \in 1..Len(bookings) :
                  bookings[i].event # e => bookings'[i] = bookings[i]
             /\ \A i \in (Len(bookings) + 1)..Len(bookings') : bookings'[i].event = e
       /\ Decides(c)
          => /\ lin'[c].res = SeqOp(Elsewhere(ViewOf(c), e), req[c], TimeOf(c)).res
             /\ pc'[c] = "done" => res'[c] = lin'[c].res
       /\ (~InConflict(c) /\ InConflict(c)') => ActivityOn(c, e)

C20_Independence == [][C20_Step]_vars

\* C20 witness: user A's creates on e1 and on e2 ran side by side and both
\* succeeded; each event lost its own two seats.
C20_Witness ==
  /\ ops = 2
  /\ \E c, d \in Calls :
       /\ Done(c) /\ res[c] = Created /\ req[c].event = "e1"
       /\ Done(d) /\ res[d] = Created /\ req[d].event = "e2"
  /\ events["e1"].availableSeats = Capacity - 2
  /\ events["e2"].availableSeats = Capacity - 2


\* C21 - the stored amount is fixed at creation: a booking enters the collection
\* with totalAmount = (the event's price at that moment) * seatsBooked, and no
\* later step (a cancellation, a change of the event's price) changes the
\* totalAmount or the seatsBooked of a booking that is in the collection.
C21_Step ==
  /\ Len(bookings') >= Len(bookings)
  /\ \A i \in 1..Len(bookings) :
       /\ bookings'[i].totalAmount = bookings[i].totalAmount
       /\ bookings'[i].seatsBooked = bookings[i].seatsBooked
  /\ \A i \in (Len(bookings) + 1)..Len(bookings') :
       bookings'[i].totalAmount =
         events[bookings'[i].event].price * bookings'[i].seatsBooked

C21_AmountFixed == [][C21_Step]_vars

\* C21 witness: a booking of 2 seats made at the first price has been cancelled
\* and the price has been raised since; it still holds 2 seats at 2 * Price.
C21_Witness ==
  /\ Len(bookings) >= 1
  /\ bookings[1].status = "cancelled"
  /\ bookings[1].seatsBooked = 2
  /\ bookings[1].totalAmount = 2 * Price
  /\ events[bookings[1].event].price = Price + 1


\* the bookings of event e that have status st, and their amounts
WithStatus(e, st) == {i \in 1..Len(bookings) : bookings[i].event = e /\ bookings[i].status = st}
Revenue(e, st) ==
  SumSeq([i \in 1..Len(bookings) |->
            IF i \in WithStatus(e, st) THEN bookings[i].totalAmount ELSE 0])
Seats(e, st) ==
  SumSeq([i \in 1..Len(bookings) |->
            IF i \in WithStatus(e, st) THEN bookings[i].seatsBooked ELSE 0])
GroupSeats(stats, st) == IF st \in DOMAIN stats THEN stats[st].totalSeats ELSE 0

\* C22 - event statistics: when getEventBookings answers, each status group of
\* its stats holds the count, seats and revenue of exactly the event's bookings
\* of that status (so nothing cancelled is counted as confirmed), whatever the
\* status filter and page of the request; the seats of the confirmed group equal
\* totalSeats - availableSeats of the event as stored at that moment.
C22_Step ==
  \A c \in Calls :
    (pc[c] = "v_aggregate" /\ pc'[c] = "done" /\ res'[c] = Ok) =>
      LET stats == got'[c].stats
          e == req[c].event
      IN /\ DOMAIN stats = {st \in {"confirmed", "cancelled", "pending"} :
                              WithStatus(e, st) # {}}
         /\ \A st \in DOMAIN stats :
              /\ stats[st].count = Cardinality(WithStatus(e, st))
              /\ stats[st].totalSeats = Seats(e, st)
              /\ stats[st].totalRevenue = Revenue(e, st)
         /\ GroupSeats(stats, "confirmed") =
              events[e].totalSeats - events[e].availableSeats

C22_EventStats == [][C22_Step]_vars

\* C22 witness: getEventBookings asked for page 2 of the cancelled bookings of an
\* event that has one cancelled booking of 2 seats and one confirmed of 1 seat;
\* its stats show the two groups apart.
C22_Witness ==
  \E c \in Calls :
    /\ Done(c) /\ req[c].op = "getEventBookings" /\ res[c] = Ok
    /\ req[c].status = "cancelled" /\ req[c].page = 2
    /\ DOMAIN got[c].stats = {"confirmed", "cancelled"}
    /\ got[c].stats["cancelled"].totalSeats = 2
    /\ got[c].stats["confirmed"].totalSeats = 1
    /\ got[c].stats["confirmed"].totalRevenue = Price


\* the per-status aggregate over the bookings in the set S
StatsOver(S) ==
  LET of(st) == {i \in S : bookings[i].status = st}
      sum(st, f) == SumSeq([i \in 1..Len(bookings) |->
                              IF i \in of(st) THEN bookings[i][f] ELSE 0])
  IN [st \in {st \in {"confirmed", "cancelled", "pending"} : of(st) # {}} |->
        [count |-> Cardinality(of(st)),
         totalSeats |-> sum(st, "seatsBooked"),
         totalRevenue |-> sum(st, "totalAmount")]]

\* C23 - the admin listing includes aggregates: getAllBookings without an owner
\* filter takes its page from the bookings of all users, and its answer carries
\* the per-status stats (count, totalSeats, totalRevenue) of the bookings.
C23_Step ==
  \A c \in Calls :
    /\ (pc[c] = "a_find" /\ pc'[c] = "a_count" /\ req[c].owner = "") =>
         \E all \in SortOrders({i \in 1..Len(bookings) :
                                  /\ req[c].status \in {"", bookings[i].status}
                                  /\ req[c].event \in {"", bookings[i].event}}) :
           got'[c].bookings = FindPage(bookings, all, req[c].page, req[c].limit)
    /\ (pc[c] = "a_count" /\ pc'[c] = "done" /\ res'[c] = Ok /\ req[c].owner = "") =>
         got'[c].stats = StatsOver(1..Len(bookings))

C23_AdminAggregates == [][C23_Step]_vars


Listings == {"getUserBookings", "getAllBookings", "getEventBookings"}
Answered(c) == Done(c) /\ req[c].op \in Listings /\ res[c] = Ok
Ids(page) == {page[k].id : k \in 1..Len(page)}
Unwritten == bookings = SeedBookings

\* C24 - pagination of listings: an answered listing reports page = max(1, page)
\* and a limit clamped to 1..50, holds at most limit bookings, no booking twice,
\* and pages = ceil(total / limit); while nothing has been written, total is the
\* number of bookings matching the filter, two answers to the same listing for
\* different pages share no booking, and the answers for pages 1 and 2 of a
\* two-page listing hold every matching booking between them.
C24_Pagination ==
  \A c \in Calls :
    Answered(c) =>
      /\ got[c].page = (IF req[c].page >= 1 THEN req[c].page ELSE 1)
      /\ got[c].limit \in 1..50
      /\ req[c].limit \in 1..50 => got[c].limit = req[c].limit
      /\ Len(got[c].bookings) <= got[c].limit
      /\ Cardinality(Ids(got[c].bookings)) = Len(got[c].bookings)
      /\ got[c].pages * got[c].limit >= got[c].total
      /\ (got[c].pages - 1) * got[c].limit < got[c].total
      /\ Unwritten =>
           /\ got[c].total = Cardinality(Matching(bookings, Query(req[c])))
           /\ Ids(got[c].bookings) \subseteq Matching(bookings, Query(req[c]))
           /\ \A d \in Calls \ {c} :
                ( /\ Answered(d)
                  /\ req[d].op = req[c].op
                  /\ Query(req[d]) = Query(req[c])
                  /\ got[d].limit = got[c].limit
                  /\ got[d].page # got[c].page ) =>
                  /\ Ids(got[c].bookings) \cap Ids(got[d].bookings) = {}
                  /\ (got[c].pages = 2 /\ {got[c].page, got[d].page} = {1, 2}) =>
                       Ids(got[c].bookings) \cup Ids(got[d].bookings) =
                         Matching(bookings, Query(req[c]))


\* C25 - every call answers exactly once: a createBooking or cancelBooking
\* handler that has run to its end has sent a response and ended its session,
\* the response is a success exactly if its transaction committed, and a
\* response that has been sent is not replaced by another.
C25_Answered ==
  \A c \in Calls :
    (Done(c) /\ req[c].op \in {"create", "cancel"}) =>
      /\ res[c] # NoResult
      /\ snap[c] = <<>> /\ wset[c] = NoWrites
      /\ res[c].code \in {200, 201} <=> txn[c] = "committed"


\* the answer of the first failing check of createBooking for request r, on the
\* collections view with new Date() = t (NoResult: no check fails)
FirstFailing(view, r, t) ==
  IF r.event \notin DOMAIN view.events THEN EventNotFound
  ELSE IF view.events[r.event].date < t THEN PastEvent
  ELSE IF \E i \in 1..Len(view.bookings) :
            /\ view.bookings[i].user = r.user
            /\ view.bookings[i].event = r.event
            /\ view.bookings[i].status = "confirmed"
       THEN Duplicate
  ELSE IF view.events[r.event].availableSeats < r.seats
       THEN OnlySeats(view.events[r.event].availableSeats)
  ELSE NoResult

\* C26 - order of the create validations: createBooking answers with the first
\* failing check in the order event exists, event not past, no confirmed booking
\* of the caller, enough seats; it goes on to write only if none fails; and a
\* rejected call has written nothing and leaves both collections unchanged.
C26_Step ==
  \A c \in Calls :
    /\ (pc[c] = "c_findEvent" /\ pc'[c] = "done") =>
         /\ res'[c] = FirstFailing(Db, req[c], now')
         /\ res'[c] \in {EventNotFound, PastEvent}
         /\ wset[c] = NoWrites /\ txn'[c] = "aborted" /\ store' = store
    /\ (pc[c] = "c_findEvent" /\ pc'[c] = "c_findExisting") =>
         FirstFailing(Db, req[c], now') \notin {EventNotFound, PastEvent}
    /\ (pc[c] = "c_findExisting" /\ pc'[c] = "done") =>
         /\ res'[c] = FirstFailing(Seen(c), req[c], tobs[c])
         /\ res'[c] # NoResult
         /\ wset[c] = NoWrites /\ txn'[c] = "aborted" /\ store' = store
    /\ (pc[c] = "c_findExisting" /\ pc'[c] = "c_saveBooking") =>
         FirstFailing(Seen(c), req[c], tobs[c]) = NoResult

C26_CheckOrder == [][C26_Step]_vars

\* C26 witness: A holds a confirmed booking of 2 seats, 1 seat is left, and A's
\* second request for 2 seats was answered with the duplicate error.
C26_Witness ==
  \E c \in Calls :
    /\ Done(c) /\ req[c].op = "create" /\ res[c] = Duplicate
    /\ req[c].seats = 2
    /\ events[req[c].event].availableSeats = 1
    /\ \E i \in 1..Len(bookings) :
         /\ bookings[i].user = req[c].user /\ bookings[i].event = req[c].event
         /\ bookings[i].status = "confirmed"


\* the bookings of user u on event e that have status st, in the collection bs
Held(bs, u, e, st) ==
  {i \in 1..Len(bs) : bs[i].user = u /\ bs[i].event = e /\ bs[i].status = st}

\* handler c runs a createBooking of a user whose earlier booking on the same
\* event is cancelled
Rebooking(c) ==
  /\ req[c].op = "create"
  /\ Held(bookings, req[c].user, req[c].event, "cancelled") # {}

\* C27 - re-booking after cancellation. In every state each event's seats are
\* conserved and no user holds two confirmed bookings on an event. A create by a
\* user whose view shows a cancelled booking of theirs on the event, no confirmed
\* one, and enough seats goes on to write; from there it can only lose a write
\* conflict, meet a failing database call, or commit, and its commit adds one new
\* confirmed booking of that user on the event, after which it is answered 201.
\* A cancelled booking is never changed again.
C27_Invariants ==
  /\ \A e \in DOMAIN events :
       events[e].availableSeats + ConfirmedSeats(bookings, e) = events[e].totalSeats
  /\ \A u \in Users, e \in DOMAIN events :
       Cardinality(Held(bookings, u, e, "confirmed")) <= 1

C27_Step ==
  /\ \A i \in 1..Len(bookings) :
       bookings[i].status = "cancelled" => bookings'[i] = bookings[i]
  /\ \A c \in Calls :
       /\ ( /\ pc[c] = "c_findExisting" /\ pc'[c] \notin {pc[c], "catch"}
            /\ Held(Seen(c).bookings, req[c].user, req[c].event, "cancelled") # {}
            /\ Held(Seen(c).bookings, req[c].user, req[c].event, "confirmed") = {}
            /\ LocalEvent(c).availableSeats >= req[c].seats ) =>
            pc'[c] = "c_saveBooking"
       /\ (Rebooking(c) /\ pc[c] \in {"c_saveBooking", "c_saveEvent"} /\ pc'[c] # pc[c]) =>
            \/ pc'[c] \in {"c_saveEvent", "c_commit"}
            \/ pc'[c] = "catch" /\ err'[c].kind \in {"WriteConflict", "fault"}
       /\ (Rebooking(c) /\ pc[c] = "c_commit" /\ pc'[c] # pc[c]) =>
            /\ pc'[c] = "c_populate"
            /\ Len(bookings') = Len(bookings) + 1
            /\ bookings'[Len(bookings')].user = req[c].user
            /\ bookings'[Len(bookings')].event = req[c].event
            /\ bookings'[Len(bookings')].status = "confirmed"
       /\ (Rebooking(c) /\ pc[c] = "c_populate" /\ pc'[c] = "done") =>
            res'[c] = Created

C27_Rebooking == [][C27_Step /\ C27_Invariants']_vars

\* C27 witness: A booked, cancelled and booked again on the same event; the
\* first record is cancelled, the second confirmed, and the last call got 201.
C27_Witness ==
  \E c \in Calls :
    /\ Done(c) /\ res[c] = Created /\ req[c].user = "A"
    /\ Len(bookings) = 2
    /\ bookings[1].user = "A" /\ bookings[1].status = "cancelled"
    /\ bookings[2].user = "A" /\ bookings[2].status = "confirmed"
    /\ bookings[2].event = bookings[1].event
    /\ 2 \in MadeBy(c)


\* the bookings collection with every booking of another user than u blanked out
Hidden(u) ==
  [i \in 1..Len(bookings) |->
     IF bookings[i].user = u THEN bookings[i]
     ELSE [user |-> "", event |-> "", seatsBooked |-> 0, totalAmount |-> 0,
           status |-> "", ver |-> 0]]

\* C28 - read isolation between users: the page and the total of getUserBookings
\* and the answer of getBookingById are what they would be on a collection that
\* shows only the caller's bookings; every booking returned belongs to the
\* caller, and getBookingById answers 404 'Booking not found' for a booking of
\* another user as for one that does not exist.
C28_Step ==
  \A c \in Calls :
    LET u == req[c].user
    IN /\ (pc[c] = "u_find" /\ pc'[c] = "u_count") =>
            /\ \A k \in 1..Len(got'[c].bookings) : got'[c].bookings[k].user = u
            /\ \E all \in SortOrders({i \in 1..Len(bookings) :
                                          /\ Hidden(u)[i].user = u
                                          /\ req[c].status \in {"", Hidden(u)[i].status}}) :
                 got'[c].bookings = FindPage(Hidden(u), all, req[c].page, req[c].limit)
       /\ (pc[c] = "u_count" /\ pc'[c] = "done" /\ res'[c] = Ok) =>
            got'[c].total =
              Cardinality({i \in 1..Len(bookings) :
                             /\ Hidden(u)[i].user = u
                             /\ req[c].status \in {"", Hidden(u)[i].status}})
       /\ (pc[c] = "b_find" /\ pc'[c] = "done" /\ err'[c].kind = "none") =>
            IF req[c].id \in 1..Len(bookings) /\ Hidden(u)[req[c].id].user = u
            THEN /\ res'[c] = Ok
                 /\ got'[c].bookings = <<Listed(Hidden(u), req[c].id)>>
            ELSE /\ res'[c] = BookingNotFound
                 /\ got'[c].bookings = <<>>

C28_ReadIsolation == [][C28_Step]_vars

\* C28 witness: with bookings of A and of B in the collection, A's listing has
\* returned A's booking only (total 1), and B's getBookingById for A's booking
\* was answered 404.
C28_Witness ==
  \E c, d \in Calls :
    /\ Done(c) /\ req[c].op = "getUserBookings" /\ req[c].user = "A" /\ res[c] = Ok
    /\ Len(got[c].bookings) = 1 /\ got[c].bookings[1].user = "A" /\ got[c].total = 1
    /\ Done(d) /\ req[d].op = "getBookingById" /\ req[d].user = "B"
    /\ bookings[req[d].id].user = "A" /\ res[d] = BookingNotFound
    /\ \E i \in 1..Len(bookings) : bookings[i].user = "B"


\* the seat count selected on the open screen
Selected ==
  IF app.screen = "BookingScreen" THEN app.numberOfSeats ELSE app.seatsToBook

\* C29 - client and server agree on the create request: when the app submits a
\* booking for an existing, not yet started event with 1..10 seats selected, the
\* request passes validation and createBooking starts with the selected event
\* id and seat count.
C29_Step ==
  \A c \in Calls :
    ( /\ cid'[c] # cid[c]
      /\ req'[c].op = "create" /\ req'[c].user = AppUser
      /\ app.screen # "none"
      /\ app.event \in DOMAIN events
      /\ ~(events[app.event].date < now)
      /\ Selected \in MinSeatsPerBooking..MaxSeatsPerBooking ) =>
      /\ pc'[c] = "c_findEvent"
      /\ req'[c].event = app.event
      /\ req'[c].seats = Selected

C29_ClientServerAgree == [][C29_Step]_vars

\* C30 - seat selector bounds: on either booking screen, for an event shown
\* with at least one available seat, the selected seat count is within
\* 1..min(availableSeats, 10).
C30_SelectorBounds ==
  (app.screen # "none" /\ app.availableSeats >= 1) =>
    /\ Selected >= 1
    /\ Selected <= Min(app.availableSeats, MaxSeatsPerBooking)

====
